---- MODULE Spec2Model ----
(***************************************************************************)
(* Beam analysis (src/js/beam-analysis.js): the dispatcher BeamAnalysis    *)
(* and the analyzers simplySupported and twoSpanUnequal.                   *)
(*                                                                         *)
(* The source file holds two copies of the library one after the other     *)
(* (lines 1-252 and lines 254-491).  They differ only in the               *)
(* twoSpanUnequal deflection and shear equations; `version` says which     *)
(* copy is loaded.                                                         *)
(*                                                                         *)
(* JavaScript values are records [t, n, d, e]:                             *)
(*   t = "num"    the finite number (n / d) * 10^e                         *)
(*   t = "nan"    NaN                                                      *)
(*   t = "inf"    Infinity (n = 1) or -Infinity (n = -1)                   *)
(*   t = "undef"  undefined                                                *)
(*   t = "str"    the string Number.prototype.toFixed(2) returns; n is the *)
(*                number of hundredths, d = 0 marks "-0.00", and           *)
(*                e = 1 marks "NaN" / "Infinity" / "-Infinity" (by n)      *)
(* Arithmetic is exact.  Every input is an integer or a half, so the       *)
(* values handed to toFixed are dyadic and the doubles of the program      *)
(* represent them exactly.                                                 *)
(***************************************************************************)
EXTENDS Integers, Sequences, FiniteSets, TLC

----------------------------------------------------------------------------
(* Bounds of the model *)

MaxSimpleSpan == 4
MaxScalarLoad == 10
MaxSpan == 2
MaxLoad == 1
MaxJ2 == 2

----------------------------------------------------------------------------
(* JavaScript numbers *)

Abs(i) == IF i < 0 THEN -i ELSE i

RECURSIVE Gcd(_, _)
Gcd(a, b) == IF b = 0 THEN a ELSE Gcd(b, a % b)

RECURSIVE Pow10(_)
Pow10(k) == IF k <= 0 THEN 1 ELSE 10 * Pow10(k - 1)

RECURSIVE StripNum(_, _)
StripNum(n, e) ==
    IF n % 10 = 0 THEN StripNum(n \div 10, e + 1) ELSE <<n, e>>

RECURSIVE StripDen(_, _)
StripDen(d, e) ==
    IF d % 10 = 0 THEN StripDen(d \div 10, e - 1) ELSE <<d, e>>

\* the number (n / d) * 10^e, d > 0: n/d in lowest terms, the powers of ten
\* of n and of d moved into e (which keeps the integers of the model small)
Num(n, d, e) ==
    IF n = 0 THEN [t |-> "num", n |-> 0, d |-> 1, e |-> 0]
    ELSE LET g == Gcd(Abs(n), d)
             a == StripNum(n \div g, e)
             b == StripDen(d \div g, a[2])
         IN  [t |-> "num", n |-> a[1], d |-> b[1], e |-> b[2]]

JsInt(i) == Num(i, 1, 0)
NaN == [t |-> "nan", n |-> 0, d |-> 1, e |-> 0]
Inf(s) == [t |-> "inf", n |-> s, d |-> 1, e |-> 0]
Undefined == [t |-> "undef", n |-> 0, d |-> 1, e |-> 0]

\* ToNumber: undefined becomes NaN
ToNumber(v) == IF v.t = "undef" THEN NaN ELSE v

Sgn(i) == IF i < 0 THEN -1 ELSE IF i > 0 THEN 1 ELSE 0

\* sign of a number that is not NaN
Sign(v) == Sgn(v.n)

Neg(v0) ==
    LET v == ToNumber(v0)
    IN  IF v.t = "nan" THEN NaN
        ELSE IF v.t = "inf" THEN Inf(-v.n)
        ELSE Num(-v.n, v.d, v.e)

Add(a0, b0) ==
    LET a == ToNumber(a0)
        b == ToNumber(b0)
    IN  IF a.t = "nan" \/ b.t = "nan" THEN NaN
        ELSE IF a.t = "inf" /\ b.t = "inf" THEN (IF a.n = b.n THEN a ELSE NaN)
        ELSE IF a.t = "inf" THEN a
        ELSE IF b.t = "inf" THEN b
        ELSE LET m == IF a.e < b.e THEN a.e ELSE b.e
                 an == a.n * Pow10(a.e - m)
                 bn == b.n * Pow10(b.e - m)
             IN  Num(an * b.d + bn * a.d, a.d * b.d, m)

Sub(a, b) == Add(a, Neg(b))

Mul(a0, b0) ==
    LET a == ToNumber(a0)
        b == ToNumber(b0)
    IN  IF a.t = "nan" \/ b.t = "nan" THEN NaN
        ELSE IF a.t = "inf" \/ b.t = "inf"
             THEN (IF Sign(a) * Sign(b) = 0 THEN NaN ELSE Inf(Sign(a) * Sign(b)))
        ELSE LET g1 == Gcd(Abs(a.n), b.d)
                 g2 == Gcd(Abs(b.n), a.d)
             IN  Num((a.n \div g1) * (b.n \div g2),
                     (a.d \div g2) * (b.d \div g1), a.e + b.e)

\* a / b; every divisor of the program is +0 when it is zero
Div(a0, b0) ==
    LET a == ToNumber(a0)
        b == ToNumber(b0)
    IN  IF a.t = "nan" \/ b.t = "nan" THEN NaN
        ELSE IF a.t = "inf" /\ b.t = "inf" THEN NaN
        ELSE IF a.t = "inf" THEN (IF Sign(b) < 0 THEN Inf(-a.n) ELSE a)
        ELSE IF b.t = "inf" THEN JsInt(0)
        ELSE IF b.n = 0 THEN (IF a.n = 0 THEN NaN ELSE Inf(Sign(a)))
        ELSE Mul(a, Num(Sgn(b.n) * b.d, Abs(b.n), -b.e))

RECURSIVE Pow(_, _)
Pow(a, k) == IF k = 0 THEN JsInt(1) ELSE Mul(a, Pow(a, k - 1))

\* a < b, a <= b, a === b on numbers: false as soon as one side is NaN
Lt(a0, b0) ==
    LET a == ToNumber(a0)
        b == ToNumber(b0)
    IN  /\ a.t # "nan"
        /\ b.t # "nan"
        /\ Sign(Sub(b, a)) > 0

Eq(a0, b0) ==
    LET a == ToNumber(a0)
        b == ToNumber(b0)
    IN  /\ a.t # "nan"
        /\ a.t = b.t
        /\ IF a.t = "inf" THEN a.n = b.n ELSE Sign(Sub(b, a)) = 0

Le(a, b) == Lt(a, b) \/ Eq(a, b)
Gt(a, b) == Lt(b, a)
Ge(a, b) == Le(b, a)

\* x === 0 : strict equality, no conversion of undefined
StrictEq(a, b) == a.t = b.t /\ Eq(a, b)

\* a boolean used as a number
BoolNum(p) == IF p THEN JsInt(1) ELSE JsInt(0)

\* Number.prototype.toFixed(2): hundredths, ties away from zero
toFixed(v) ==
    IF v.t = "nan" THEN [t |-> "str", n |-> 0, d |-> 1, e |-> 1]
    ELSE IF v.t = "inf" THEN [t |-> "str", n |-> v.n, d |-> 1, e |-> 1]
    ELSE LET k == v.e + 2
             N == Abs(v.n) * Pow10(k)
             D == v.d * Pow10(-k)
             c == (2 * N + D) \div (2 * D)
         IN  IF v.n < 0 /\ c = 0 THEN [t |-> "str", n |-> 0, d |-> 0, e |-> 0]
             ELSE [t |-> "str", n |-> Sgn(v.n) * c, d |-> 1, e |-> 0]

----------------------------------------------------------------------------
(* Inputs: beams, materials and loads *)

\* stiffness values: zero stiffness is accepted by the code (no validation)
EIValues == {JsInt(0), JsInt(5000)}

Material(name, properties) == [name |-> name, properties |-> properties]

\* new Beam(primarySpan, secondarySpan, material): the object has no
\* property L1 or L2, so reading them yields undefined
Beam(primarySpan, secondarySpan, material) ==
    [primarySpan |-> primarySpan, secondarySpan |-> secondarySpan,
     material |-> material, L1 |-> Undefined, L2 |-> Undefined]

\* a beam object that also carries the properties L1 and L2 which the
\* structured-load equations destructure
BeamWithL(primarySpan, secondarySpan, material) ==
    [primarySpan |-> primarySpan, secondarySpan |-> secondarySpan,
     material |-> material, L1 |-> primarySpan, L2 |-> secondarySpan]

\* a scalar load: as a number it is w, and it has no property w1 .. R3
ScalarLoad(w) ==
    [number |-> JsInt(w), w1 |-> Undefined, w2 |-> Undefined,
     R1 |-> Undefined, R2 |-> Undefined, R3 |-> Undefined]

\* a structured load {w1, w2, R1, R2, R3}: as a number it is NaN
StructuredLoad(w1, w2, R1, R2, R3) ==
    [number |-> NaN, w1 |-> JsInt(w1), w2 |-> JsInt(w2),
     R1 |-> JsInt(R1), R2 |-> JsInt(R2), R3 |-> JsInt(R3)]

Materials == {Material("steel", [EI |-> ei]) : ei \in EIValues}

SimpleBeams ==
    {Beam(JsInt(p), JsInt(0), m) : p \in 1..MaxSimpleSpan, m \in Materials}

TwoSpanBeams ==
    {Beam(JsInt(p), JsInt(s), m) : p \in 1..MaxSpan, s \in 1..MaxSpan, m \in Materials}
    \cup
    {BeamWithL(JsInt(p), JsInt(s), m) : p \in 1..MaxSpan, s \in 1..MaxSpan, m \in Materials}

ScalarLoads == {ScalarLoad(w) : w \in -1..MaxScalarLoad}

StructuredLoads ==
    {StructuredLoad(w1, w2, r1, r2, r3) :
        w1 \in 0..MaxLoad, w2 \in 0..MaxLoad,
        r1 \in 0..MaxLoad, r2 \in 0..MaxLoad, r3 \in 0..MaxLoad}

Conditions ==
    {"simply-supported", "two-span-unequal", "unknown", "undefined",
     "constructor", "toString"}

BeamsFor(condition) ==
    IF condition = "two-span-unequal" THEN TwoSpanBeams ELSE SimpleBeams

LoadsFor(condition) ==
    IF condition = "two-span-unequal" THEN ScalarLoads \cup StructuredLoads
    ELSE ScalarLoads

\* sample positions for a beam: every half from one unit before the beam to
\* one unit past its end
Half(k) == Num(k, 2, 0)

SpanHalves(beam) == 2 * (beam.primarySpan.n * Pow10(beam.primarySpan.e)
                         + beam.secondarySpan.n * Pow10(beam.secondarySpan.e))

XValues(beam) == {Half(k) : k \in -2..(SpanHalves(beam) + 2)}

----------------------------------------------------------------------------
(* What an equation returns: the object {x, y}, or an exception *)

Point(x, y) == [x |-> x, y |-> y, thrown |-> "none"]
Thrown(name) == [x |-> Undefined, y |-> Undefined, thrown |-> name]

\* V.toFixed(2) on a variable that may hold undefined
CallToFixed(x, v) ==
    IF v.t = "undef" THEN Thrown("TypeError") ELSE Point(x, toFixed(v))

----------------------------------------------------------------------------
(* BeamAnalysis.analyzer.simplySupported (the same in both copies) *)

\* variants of the three equations with one slip each: the properties below
\* must tell them from the equations of the source
Deflection_CubicSignSlip(beam, load, x) ==
    LET L == beam.primarySpan
        EI == beam.material.properties.EI
        w == load.number
        y == IF Ge(x, JsInt(0)) /\ Le(x, L)
             THEN Mul(Mul(Neg(Div(Mul(w, x), Mul(JsInt(24), EI))),
                          Sub(Sub(Pow(L, 3), Mul(Mul(JsInt(2), L), Pow(x, 2))),
                              Pow(x, 3))),
                      JsInt(1000))
             ELSE JsInt(0)
    IN  Point(x, y)

Deflection_NoMinus(beam, load, x) ==
    LET L == beam.primarySpan
        EI == beam.material.properties.EI
        w == load.number
        y == IF Ge(x, JsInt(0)) /\ Le(x, L)
             THEN Mul(Mul(Div(Mul(w, x), Mul(JsInt(24), EI)),
                          Add(Sub(Pow(L, 3), Mul(Mul(JsInt(2), L), Pow(x, 2))),
                              Pow(x, 3))),
                      JsInt(1000))
             ELSE JsInt(0)
    IN  Point(x, y)

BendingMoment_PrecedenceSlip(beam, load, x) ==
    LET L == beam.primarySpan
        w == load.number
        M == IF Ge(x, JsInt(0)) /\ Le(x, L)
             THEN Sub(Mul(Neg(Div(Mul(w, x), JsInt(2))), L), x)
             ELSE JsInt(0)
    IN  Point(x, M)

ShearForce_NoLowerBound(beam, load, x) ==
    LET L == beam.primarySpan
        w == load.number
        V == IF Le(x, L)
             THEN Mul(w, Sub(Div(L, JsInt(2)), x))
             ELSE JsInt(0)
    IN  Point(x, V)

simplySupported_getDeflectionEquation(beam, load, x) ==
    LET L == beam.primarySpan
        EI == beam.material.properties.EI
        w == load.number
        y == IF Ge(x, JsInt(0)) /\ Le(x, L)
             THEN Mul(Mul(Neg(Div(Mul(w, x), Mul(JsInt(24), EI))),
                          Add(Sub(Pow(L, 3), Mul(Mul(JsInt(2), L), Pow(x, 2))),
                              Pow(x, 3))),
                      JsInt(1000))
             ELSE JsInt(0)
    IN  Point(x, y)

simplySupported_getBendingMomentEquation(beam, load, x) ==
    LET L == beam.primarySpan
        w == load.number
        M == IF Ge(x, JsInt(0)) /\ Le(x, L)
             THEN Mul(Neg(Div(Mul(w, x), JsInt(2))), Sub(L, x))
             ELSE JsInt(0)
    IN  Point(x, M)

simplySupported_getShearForceEquation(beam, load, x) ==
    LET L == beam.primarySpan
        w == load.number
        V == IF Ge(x, JsInt(0)) /\ Le(x, L)
             THEN Mul(w, Sub(Div(L, JsInt(2)), x))
             ELSE JsInt(0)
    IN  Point(x, V)

----------------------------------------------------------------------------
(* BeamAnalysis.analyzer.twoSpanUnequal, first copy (scalar load) *)

\* the reactions both scalar-load equations derive from w, L1 and L2
M1(w, L1, L2) ==
    Mul(Div(Add(Mul(w, Pow(L2, 3)), Mul(w, Pow(L1, 3))),
            Mul(JsInt(8), Add(L1, L2))),
        JsInt(-1))

R1(w, L1, L2) == Add(Div(M1(w, L1, L2), L1), Div(Mul(w, L1), JsInt(2)))

R3(w, L1, L2) == Add(Div(M1(w, L1, L2), L2), Div(Mul(w, L2), JsInt(2)))

R2(w, L1, L2) ==
    Sub(Sub(Add(Mul(w, L1), Mul(w, L2)), R1(w, L1, L2)), R3(w, L1, L2))

\* j2v is the value floatVal("j2") returns at this call
twoSpanUnequal_getDeflectionEquation_1(beam, load, j2v, x) ==
    LET L1 == beam.primarySpan
        L2 == beam.secondarySpan
        w == load.number
        r1 == R1(w, L1, L2)
        r2 == R2(w, L1, L2)
        EI == Div(beam.material.properties.EI, Pow(JsInt(10), 9))
        scale == Div(EI, Pow(JsInt(1000), 3))
        V == IF Le(x, L1)
             THEN Mul(Mul(Mul(Div(x, JsInt(24)), scale),
                          Sub(Add(Sub(Mul(Mul(JsInt(4), r1), Pow(x, 2)),
                                      Mul(w, Pow(x, 3))),
                                  Mul(w, Pow(L1, 3))),
                              Mul(Mul(JsInt(4), r1), Pow(L1, 2)))),
                      Mul(JsInt(1000), j2v))
             ELSE IF Le(L1, Add(L1, L2))
             THEN Mul(Mul(Sub(Sub(Add(Mul(Div(Mul(r1, x), JsInt(6)),
                                          Sub(Pow(x, 2), Pow(L1, 2))),
                                      Mul(Div(Mul(r2, x), JsInt(6)),
                                          Add(Sub(Pow(x, 2), Mul(Mul(JsInt(3), L1), x)),
                                              Mul(JsInt(3), Pow(L1, 2))))),
                                  Div(Mul(r2, Pow(L1, 3)), JsInt(6))),
                              Mul(Div(Mul(w, x), JsInt(24)),
                                  Sub(Pow(x, 3), Pow(L1, 3)))),
                          Div(JsInt(1), scale)),
                      Mul(JsInt(1000), j2v))
             ELSE JsInt(0)
    IN  Point(x, V)

\* (the j2 read at line 221, when the equation is built, is never used)
twoSpanUnequal_getShearForceEquation_1(beam, load, x) ==
    LET L1 == beam.primarySpan
        L2 == beam.secondarySpan
        w == load.number
        r1 == R1(w, L1, L2)
        r2 == R2(w, L1, L2)
        L == Add(L1, L2)
        V == IF Eq(x, JsInt(0)) THEN r1
             ELSE IF Lt(x, L1) THEN Sub(r1, Mul(w, x))
             ELSE IF Eq(x, L1) THEN Sub(r1, Mul(w, L1))
             ELSE IF Eq(x, L2) THEN Sub(Add(r1, r2), Mul(w, L1))
             ELSE IF Lt(BoolNum(Lt(L1, x)), L) THEN Sub(Add(r1, r2), Mul(w, x))
             ELSE IF Eq(x, L) THEN Sub(Add(r1, r2), Mul(w, L))
             ELSE JsInt(0)
    IN  Point(x, V)

----------------------------------------------------------------------------
(* BeamAnalysis.analyzer.twoSpanUnequal, structured load {w1,w2,R1,R2,R3}:  *)
(* the bending moment of both copies, deflection and shear of the second.   *)
(* The equations read beam.L1 and beam.L2.                                  *)

\* the branch of the if-chain taken at x
Segment(beam, x) ==
    LET L1 == beam.L1
        L2 == beam.L2
    IN  IF StrictEq(x, JsInt(0)) THEN "origin"
        ELSE IF Gt(x, JsInt(0)) /\ Le(x, L1) THEN "span1"
        ELSE IF Gt(x, L1) /\ Le(x, Add(L1, L2)) THEN "span2"
        ELSE IF Gt(x, Add(L1, L2)) THEN "beyond"
        ELSE "none"

\* a variant of BendingMomentIn with R2 * x for R2 * x2 in the second span
BendingMomentIn_LeverArmSlip(seg, beam, load, x) ==
    LET L1 == beam.L1
        x2 == Sub(x, L1)
    IN  IF seg = "span1"
        THEN Sub(Mul(load.R1, x), Div(Mul(load.w1, Pow(x, 2)), JsInt(2)))
        ELSE IF seg = "span2"
        THEN Sub(Sub(Add(Mul(load.R1, x), Mul(load.R2, x)),
                     Div(Mul(load.w1, Pow(L1, 2)), JsInt(2))),
                 Div(Mul(load.w2, Pow(x2, 2)), JsInt(2)))
        ELSE JsInt(0)

\* M as assigned in the branch seg
BendingMomentIn(seg, beam, load, x) ==
    LET L1 == beam.L1
        x2 == Sub(x, L1)
    IN  IF seg = "span1"
        THEN Sub(Mul(load.R1, x), Div(Mul(load.w1, Pow(x, 2)), JsInt(2)))
        ELSE IF seg = "span2"
        THEN Sub(Sub(Add(Mul(load.R1, x), Mul(load.R2, x2)),
                     Div(Mul(load.w1, Pow(L1, 2)), JsInt(2))),
                 Div(Mul(load.w2, Pow(x2, 2)), JsInt(2)))
        ELSE JsInt(0)

twoSpanUnequal_getBendingMomentEquation(beam, load, x) ==
    CallToFixed(x, BendingMomentIn(Segment(beam, x), beam, load, x))

\* V as assigned in the branch seg (deflection and shear of the second copy
\* assign the same values)
ShearForceIn(seg, beam, load, x) ==
    LET L1 == beam.L1
        L2 == beam.L2
    IN  IF seg = "origin" THEN load.R1
        ELSE IF seg = "span1" THEN Sub(load.R1, Mul(load.w1, x))
        ELSE IF seg = "span2"
        THEN Sub(Sub(Add(load.R1, load.R2), Mul(load.w1, L1)),
                 Mul(load.w2, Sub(x, L1)))
        ELSE IF seg = "beyond"
        THEN Sub(Sub(Add(Add(load.R1, load.R2), load.R3), Mul(load.w1, L1)),
                 Mul(load.w2, L2))
        ELSE JsInt(0)

twoSpanUnequal_getDeflectionEquation_2(beam, load, x) ==
    CallToFixed(x, ShearForceIn(Segment(beam, x), beam, load, x))

twoSpanUnequal_getShearForceEquation_2(beam, load, x) ==
    CallToFixed(x, ShearForceIn(Segment(beam, x), beam, load, x))

----------------------------------------------------------------------------
(* State *)

VARIABLES
    version,   \* which copy of the library is loaded: 1 or 2
    j2,        \* the value behind floatVal("j2"), outside the library
    request,   \* <<>> or <<[op, condition]>>: the get* call made
    analysis,  \* <<>> or <<{beam, load, equation}>>: what the call returned
    error,     \* "none", or the exception the call threw
    sample,    \* <<>> or <<x>>: the position the equation was last called at
    result     \* <<>> or <<r>>: r is what that call gave

vars == <<version, j2, request, analysis, error, sample, result>>

Versions == {1, 2}

Init ==
    /\ version \in Versions
    /\ j2 = 1
    /\ request = <<>>
    /\ analysis = <<>>
    /\ error = "none"
    /\ sample = <<>>
    /\ result = <<>>

\* floatVal("j2"): reads the value from outside the equation's inputs
floatVal(name) == JsInt(j2)

----------------------------------------------------------------------------
(* BeamAnalysis: the dispatcher *)

\* this.analyzer = { 'simply-supported': ..., 'two-span-unequal': ... }
analyzer == {"simply-supported", "two-span-unequal"}

\* this.analyzer is an object literal: besides its own two keys a lookup finds
\* what it inherits from Object.prototype
ObjectPrototype ==
    {"constructor", "toString", "toLocaleString", "valueOf", "hasOwnProperty",
     "isPrototypeOf", "propertyIsEnumerable", "__proto__"}

\* this.analyzer[condition]
Lookup(condition) ==
    IF condition \in analyzer THEN condition
    ELSE IF condition \in ObjectPrototype THEN "inherited"
    ELSE "undefined"

\* the body shared by getDeflection, getBendingMoment and getShearForce:
\* `kind` is the equation asked of the analyzer
Dispatch(op, kind, beam, load, condition) ==
    /\ request' = <<[op |-> op, condition |-> condition]>>
    /\ IF Lookup(condition) = "undefined"
       THEN /\ error' = "Invalid condition"
            /\ analysis' = <<>>
       ELSE IF Lookup(condition) = "inherited"
       THEN \* truthy, but it has no get...Equation method to call
            /\ error' = "TypeError"
            /\ analysis' = <<>>
       ELSE /\ error' = "none"
            /\ analysis' = <<[beam |-> beam, load |-> load,
                              equation |-> [analyzer |-> Lookup(condition),
                                            kind |-> kind]]>>
    /\ UNCHANGED <<version, j2, sample, result>>

getDeflection(beam, load, condition) ==
    Dispatch("getDeflection", "deflection", beam, load, condition)

getBendingMoment(beam, load, condition) ==
    Dispatch("getBendingMoment", "bendingMoment", beam, load, condition)

getShearForce(beam, load, condition) ==
    Dispatch("getShearForce", "shearForce", beam, load, condition)

\* equation(x) of the bundle a, in the loaded copy
equation(a, x) ==
    IF a.equation.analyzer = "simply-supported"
    THEN IF a.equation.kind = "deflection"
         THEN simplySupported_getDeflectionEquation(a.beam, a.load, x)
         ELSE IF a.equation.kind = "bendingMoment"
         THEN simplySupported_getBendingMomentEquation(a.beam, a.load, x)
         ELSE simplySupported_getShearForceEquation(a.beam, a.load, x)
    ELSE IF a.equation.kind = "bendingMoment"
         THEN twoSpanUnequal_getBendingMomentEquation(a.beam, a.load, x)
         ELSE IF a.equation.kind = "deflection"
         THEN IF version = 1
              THEN twoSpanUnequal_getDeflectionEquation_1(a.beam, a.load,
                                                          floatVal("j2"), x)
              ELSE twoSpanUnequal_getDeflectionEquation_2(a.beam, a.load, x)
         ELSE IF version = 1
              THEN twoSpanUnequal_getShearForceEquation_1(a.beam, a.load, x)
              ELSE twoSpanUnequal_getShearForceEquation_2(a.beam, a.load, x)

\* The caller calls the returned equation at x.  An equation writes no state,
\* so the samples are independent of each other: a behaviour follows one
\* position, which may be sampled again and again.
Evaluate ==
    /\ analysis # <<>>
    /\ \E x \in XValues(analysis[1].beam) :
           /\ sample \in {<<>>, <<x>>}
           /\ sample' = <<x>>
           /\ result' = <<equation(analysis[1], x)>>
    /\ UNCHANGED <<version, j2, request, analysis, error>>

\* the value behind floatVal("j2") changes
SetJ2 ==
    /\ \E v \in 1..MaxJ2 : v # j2 /\ j2' = v
    /\ UNCHANGED <<version, request, analysis, error, sample, result>>

\* Neither the dispatcher nor an equation writes any state, so requests are
\* independent of each other: a behaviour follows one request.
Idle == request = <<>>

Next ==
    \/ /\ Idle
       /\ \E condition \in Conditions :
            \E beam \in BeamsFor(condition), load \in LoadsFor(condition) :
               getDeflection(beam, load, condition)
    \/ /\ Idle
       /\ \E condition \in Conditions :
            \E beam \in BeamsFor(condition), load \in LoadsFor(condition) :
               getBendingMoment(beam, load, condition)
    \/ /\ Idle
       /\ \E condition \in Conditions :
            \E beam \in BeamsFor(condition), load \in LoadsFor(condition) :
               getShearForce(beam, load, condition)
    \/ Evaluate
    \/ SetJ2

Spec == Init /\ [][Next]_vars

\* the simply-supported requests alone
NextSimplySupported ==
    \/ /\ Idle
       /\ \E beam \in SimpleBeams, load \in ScalarLoads :
             getDeflection(beam, load, "simply-supported")
    \/ /\ Idle
       /\ \E beam \in SimpleBeams, load \in ScalarLoads :
             getBendingMoment(beam, load, "simply-supported")
    \/ /\ Idle
       /\ \E beam \in SimpleBeams, load \in ScalarLoads :
             getShearForce(beam, load, "simply-supported")
    \/ Evaluate
    \/ SetJ2

SpecSimplySupported == Init /\ [][NextSimplySupported]_vars

\* the two-span bending moment under a structured load alone
NextTwoSpanMoment ==
    \/ /\ Idle
       /\ \E beam \in TwoSpanBeams, load \in StructuredLoads :
             getBendingMoment(beam, load, "two-span-unequal")
    \/ Evaluate

SpecTwoSpanMoment == Init /\ [][NextTwoSpanMoment]_vars

----------------------------------------------------------------------------
(* Properties *)

Called == request # <<>>
Sampled == result # <<>>
TheBeam == analysis[1].beam
TheLoad == analysis[1].load
TheEquation == analysis[1].equation
X == sample[1]
Returned == result[1]

Zero == JsInt(0)

\* y is the number 0 or the string "0.00" / "-0.00"
IsZero(y) ==
    \/ y.t = "num" /\ y.n = 0
    \/ y.t = "str" /\ y.n = 0 /\ y.e = 0

IsStructured(load) == load.w1.t = "num"
IsBuiltByBeam(beam) == beam.L1.t = "undef" /\ beam.L2.t = "undef"

SimplySampled(kind) ==
    /\ Sampled
    /\ TheEquation.analyzer = "simply-supported"
    /\ TheEquation.kind = kind

TwoSpanSampled(kind) ==
    /\ Sampled
    /\ TheEquation.analyzer = "two-span-unequal"
    /\ TheEquation.kind = kind

\* C1: a get* call with any condition other than "simply-supported" and
\* "two-span-unequal" throws Error('Invalid condition') and returns no bundle
C1_InvalidCondition ==
    (Called /\ request[1].condition \notin {"simply-supported", "two-span-unequal"})
        => (error = "Invalid condition" /\ analysis = <<>>)

\* the bending moment the specification states for spans L1, L2
StatedBendingMoment(L1, L2, load, x) ==
    IF Gt(x, Zero) /\ Le(x, L1)
    THEN Sub(Mul(load.R1, x), Div(Mul(load.w1, Mul(x, x)), JsInt(2)))
    ELSE IF Gt(x, L1) /\ Le(x, Add(L1, L2))
    THEN Sub(Sub(Add(Mul(load.R1, x), Mul(load.R2, Sub(x, L1))),
                 Div(Mul(load.w1, Mul(L1, L1)), JsInt(2))),
             Div(Mul(load.w2, Mul(Sub(x, L1), Sub(x, L1))), JsInt(2)))
    ELSE Zero

\* C2: for a beam built as Beam(L1, L2, material) and a structured load, the
\* two-span bending-moment equation returns at every x >= 0 the stated moment
\* rounded to two decimals
C2_BendingMomentOfBeam ==
    (/\ TwoSpanSampled("bendingMoment")
     /\ IsBuiltByBeam(TheBeam)
     /\ IsStructured(TheLoad)
     /\ Ge(X, Zero))
        => /\ Returned.thrown = "none"
           /\ Returned.y = toFixed(StatedBendingMoment(TheBeam.primarySpan,
                                       TheBeam.secondarySpan, TheLoad, X))

\* the shear force the specification states for spans L1, L2
StatedShearForce(L1, L2, load, x) ==
    IF Eq(x, Zero) THEN load.R1
    ELSE IF Gt(x, Zero) /\ Lt(x, L1) THEN Sub(load.R1, Mul(load.w1, x))
    ELSE IF Eq(x, L1) THEN Sub(load.R1, Mul(load.w1, L1))
    ELSE IF Gt(x, L1) /\ Le(x, Add(L1, L2))
    THEN Sub(Sub(Add(load.R1, load.R2), Mul(load.w1, L1)),
             Mul(load.w2, Sub(x, L1)))
    ELSE Sub(Sub(Add(Add(load.R1, load.R2), load.R3), Mul(load.w1, L1)),
             Mul(load.w2, L2))

\* C3: for a beam built as Beam(L1, L2, material) and a structured load, the
\* two-span shear-force equation returns at every x >= 0 the stated shear
\* rounded to two decimals
C3_ShearForceOfBeam ==
    (/\ TwoSpanSampled("shearForce")
     /\ IsBuiltByBeam(TheBeam)
     /\ IsStructured(TheLoad)
     /\ Ge(X, Zero))
        => /\ Returned.thrown = "none"
           /\ Returned.y = toFixed(StatedShearForce(TheBeam.primarySpan,
                                       TheBeam.secondarySpan, TheLoad, X))

OutsideSpan == Lt(X, Zero) \/ Gt(X, TheBeam.primarySpan)

\* C4: simply supported, any load and stiffness: at every x < 0 and every
\* x > L each of the three equations returns y = 0 and the x it was given
C4_ZeroOutsideSpan ==
    \A kind \in {"deflection", "bendingMoment", "shearForce"} :
        (SimplySampled(kind) /\ OutsideSpan)
            => /\ Returned.thrown = "none"
               /\ Returned.y = Zero
               /\ Returned.x = X

C4_Witness ==
    /\ SimplySampled("deflection")
    /\ Lt(X, Zero)
    /\ TheLoad.number # Zero
    /\ TheBeam.material.properties.EI = Zero
    /\ Returned.y = Zero

PositiveSpanAndStiffness ==
    /\ Gt(TheBeam.primarySpan, Zero)
    /\ Gt(TheBeam.material.properties.EI, Zero)

AtEnd == Eq(X, Zero) \/ Eq(X, TheBeam.primarySpan)
AtMidspan == Eq(X, Div(TheBeam.primarySpan, JsInt(2)))

FirstSpan == IF IsBuiltByBeam(TheBeam) THEN TheBeam.primarySpan ELSE TheBeam.L1

\* the grid step of the sample positions
Step == Half(1)

\* C7: the two-span bending moment under a structured load is continuous at
\* x = L1: what the equation returns at x = L1 is what the branch taken just
\* above L1 (the second-segment formula) gives at x = L1, i.e. at x2 = 0
C7_MomentContinuity ==
    (/\ TwoSpanSampled("bendingMoment")
     /\ IsStructured(TheLoad)
     /\ Eq(X, FirstSpan))
        => /\ Returned.thrown = "none"
           /\ Returned.y = toFixed(BendingMomentIn(Segment(TheBeam, Add(X, Step)),
                                                   TheBeam, TheLoad, X))

C7_Witness ==
    /\ TwoSpanSampled("bendingMoment")
    /\ IsStructured(TheLoad)
    /\ ~IsBuiltByBeam(TheBeam)
    /\ Eq(X, FirstSpan)
    /\ Segment(TheBeam, X) = "span1"
    /\ Segment(TheBeam, Add(X, Step)) = "span2"
    /\ TheLoad.R2 # Zero
    /\ ~IsZero(Returned.y)

\* C8: an equation called twice at the same x returns the same {x, y},
\* whatever happened outside the beam and the load in between
C8_Idempotent ==
    [][(Sampled /\ analysis' = analysis /\ sample' = sample) => result' = result]_vars

\* C9: the two-span deflection is 0 at every x < 0 and every x > L1 + L2
C9_DeflectionZeroOutside ==
    (/\ TwoSpanSampled("deflection")
     /\ \/ Lt(X, Zero)
        \/ Gt(X, Add(TheBeam.primarySpan, TheBeam.secondarySpan)))
        => (Returned.thrown = "none" /\ IsZero(Returned.y))

InsideSpan == Gt(X, Zero) /\ Lt(X, TheBeam.primarySpan)

====
